---- MODULE Spec2Model ----
(***************************************************************************)
(* Theoriq API: the fetch client with its TTL cache (src/server.js,        *)
(* TheoriqAPI), the snapshot store (src/database/database.js,              *)
(* TheoriqDatabase) and the trigger coordinator (src/services/scheduler.js *)
(* and the admin routes of src/server.js).                                 *)
(*                                                                         *)
(* The process is single threaded: a handler runs without interruption     *)
(* until it awaits the network or the database.  One action of this module *)
(* is one such uninterrupted piece: the code from one suspension point to  *)
(* the next, or the execution of one SQL statement together with its       *)
(* completion callback.                                                    *)
(*                                                                         *)
(* There are two database connections on the same file: the one of         *)
(* server.js (`db`, used by the read routes) and the one of the scheduler  *)
(* (`scheduler.db`, used by saveSnapshot and cleanOldSnapshots).  `store`  *)
(* is the committed content of the file, which is what the read routes     *)
(* see; `view` and `inTxn` are the scheduler connection's own view and     *)
(* whether it has a transaction open.                                      *)
(*                                                                         *)
(* `proc` holds the handlers in flight; a handler that has answered leaves *)
(* its answer in `last` and frees its slot.  `rejected` collects the ids   *)
(* of the snapshots whose saveSnapshot promise was rejected.  `mark`       *)
(* remembers one returned getData call, to compare later calls with.       *)
(***************************************************************************)
EXTENDS Integers, Sequences, FiniteSets, TLC

VARIABLES now, cache, proc, store, view, inTxn, nextId, last, rejected, mark,
          jobs, apiCache

vars ==
    <<now, cache, proc, store, view, inTxn, nextId, last, rejected, mark, jobs,
      apiCache>>

----------------------------------------------------------------------------
(* Bounds of the model *)

\* handlers that can be in flight at the same time
MaxProcs == 2
\* clock ticks the model follows
MaxTime == 2
\* snapshot identifiers (uuidv4 values) the model hands out
MaxSnap == 2

\* snapshots in a store that is only read
MaxRows == 4

(* Program constants *)

\* this.cacheTTL, in clock ticks of the model
CacheTTL == 1
\* cacheMiddleware(600) of GET /api/latest, in clock ticks of the model
LatestTTL == 2
\* cleanOldSnapshots(12)
RetentionWeeks == 12
\* extractYappers(result.data, 250)
CollectLimit == 250
\* moment(): the current calendar date, counted in weeks
Today == 20

Procs == 1..MaxProcs
Windows == {"7d", "30d"}
NULL == "NULL"
None == "none"

----------------------------------------------------------------------------
(* Upstream payloads *)

PayloadNames == {"malformed", "empty", "full", "nulluser", "badnum"}

\* a field of the payload that is not a number, and what parseInt makes of it
NonNumeric == 0 - 1
NaN == 0 - 2

\* API_CONFIG.proxyUrls: the configured fallback sources
proxyUrls == <<"theoriq-proxy", "allorigins", "corsproxy">>

\* What the upstream can answer with.  cm: the community_mindshare object is
\* present; metrics: its four counters; yappers: its top_250_yappers.
Payload(name) ==
    CASE name = "malformed" ->
            [cm |-> FALSE, metrics |-> <<>>, yappers |-> <<>>]
      [] name = "empty" ->
            [cm |-> TRUE, metrics |-> <<100, 500, 10000, 2000>>, yappers |-> <<>>]
      [] name = "full" ->
            [cm |-> TRUE, metrics |-> <<100, 500, 10000, 2000>>,
             yappers |-> << [rank |-> 1, username |-> "a"],
                            [rank |-> 2, username |-> "b"],
                            [rank |-> 3, username |-> "c"] >>]
      [] name = "badnum" ->
            [cm |-> TRUE, metrics |-> <<NonNumeric, 9, 11, 13>>,
             yappers |-> << [rank |-> NonNumeric, username |-> "a"],
                            [rank |-> 2, username |-> "b"] >>]
      [] OTHER ->
            [cm |-> TRUE, metrics |-> <<7, 9, 11, 13>>,
             yappers |-> << [rank |-> 1, username |-> "a"],
                            [rank |-> 2, username |-> NULL] >>]

\* an extractMetrics that accepts a payload without community_mindshare
extractMetricsNeverThrows(name) == FALSE

\* extractMetrics throws a TypeError when community_mindshare is absent
extractMetricsThrows(name) == ~Payload(name).cm

extractMetrics(name) == Payload(name).metrics

Min(a, b) == IF a < b THEN a ELSE b

\* parseInt of a payload field
parseInt(v) == IF v = NonNumeric THEN NaN ELSE v

\* yappers.slice(offset, offset + limit).map(...)
extractYappers(name, limit, offset) ==
    LET y == Payload(name).yappers
        page == SubSeq(y, offset + 1, Min(offset + limit, Len(y)))
    IN  [i \in 1..Len(page) |->
            [rank |-> parseInt(page[i].rank), username |-> page[i].username]]

----------------------------------------------------------------------------
(* The fetch cache *)

\* a window without a cache entry
NoEntry == [data |-> None, timestamp |-> 0]

EmptyCache == [w \in Windows |-> NoEntry]

\* a checkCache that never answers from the cache
checkCacheAlwaysMiss(w) == None

\* a checkCache that still serves an entry aged exactly the TTL
checkCacheServesAtTTL(w) ==
    IF cache[w] # NoEntry /\ (now - cache[w].timestamp) <= CacheTTL
    THEN cache[w].data
    ELSE None

checkCache(w) ==
    IF cache[w] # NoEntry /\ (now - cache[w].timestamp) < CacheTTL
    THEN cache[w].data
    ELSE None

setCache(w, data) == [cache EXCEPT ![w] = [data |-> data, timestamp |-> now]]

\* a clearCache that leaves the entries in place
clearCacheKeeps == cache

\* a clearCache that drops the entry of one window only
clearCacheOneWindow == [cache EXCEPT !["7d"] = NoEntry]

clearCache == EmptyCache

----------------------------------------------------------------------------
(* The store *)

\* h: the rows of weekly_snapshots, e: of yappers_history, l: of
\* webflow_sync_log; init: the tables exist
EmptyStore == [h |-> {}, e |-> {}, l |-> {}, init |-> TRUE]

\* a database file in which initTables has not run yet
NoTables == [EmptyStore EXCEPT !.init = FALSE]

\* CREATE TABLE IF NOT EXISTS, CREATE INDEX IF NOT EXISTS: the tables exist
\* afterwards, with the rows they had
initTablesDrops(st) == EmptyStore

initTables(st) == [st EXCEPT !.init = TRUE]

\* a database file left by an earlier process: one snapshot older than the
\* retention cutoff
OldStore ==
    [h |-> {[id |-> 0, date |-> Today - RetentionWeeks - 1, win |-> "7d",
             live |-> TRUE, metrics |-> <<1, 2, 3, 4>>,
             created |-> 0 - 1, rowid |-> 1]},
     e |-> {[sid |-> 0, rank |-> 1, username |-> "z"]},
     l |-> {}, init |-> TRUE]

\* id INTEGER PRIMARY KEY AUTOINCREMENT: one more than the greatest id of the
\* table as the writing connection sees it
NextRowid(hs) ==
    IF hs = {} THEN 1
    ELSE 1 + (CHOOSE m \in {h.rowid : h \in hs} :
                  \A h \in hs : h.rowid <= m)

\* the row of weekly_snapshots written at time t with row id rid; live:
\* result.isLive, true in every result getData builds, caches and returns
HeaderRowAt(sid, data, w, t, rid) ==
    [id |-> sid, date |-> Today, win |-> w, live |-> TRUE,
     metrics |-> extractMetrics(data), created |-> t, rowid |-> rid]

\* created: created_at DEFAULT CURRENT_TIMESTAMP, in the unit of the clock
HeaderRow(sid, data, w) == HeaderRowAt(sid, data, w, now, NextRowid(view.h))

EntryRow(sid, y) == [sid |-> sid, rank |-> y.rank, username |-> y.username]

\* yappers_history.username and rank are NOT NULL; a NaN is bound as NULL
InsertFails(y) == y.username = NULL \/ y.rank = NaN

cutoffDate == Today - RetentionWeeks

\* The read routes run on the connection of server.js and see the committed
\* rows.  SELECT * FROM weekly_snapshots WHERE snapshot_id = ?
snapshotHeader(sid) == {h \in store.h : h.id = sid}

\* SELECT COUNT(*) FROM yappers_history WHERE snapshot_id = ?
getYapperCountForSnapshot(sid) == Cardinality({e \in store.e : e.sid = sid})

\* ORDER BY rank ASC over a set of entry rows
SortedByRank(S) ==
    CHOOSE s \in [1..Cardinality(S) -> S] :
        /\ \A i, j \in 1..Cardinality(S) : i < j => s[i].rank <= s[j].rank
        /\ \A i, j \in 1..Cardinality(S) : i # j => s[i] # s[j]

\* SELECT * FROM yappers_history WHERE snapshot_id = ? ORDER BY rank ASC
\* LIMIT ? OFFSET ?
getYappersForSnapshot(sid, limit, offset) ==
    LET all == SortedByRank({e \in store.e : e.sid = sid})
    IN  SubSeq(all, offset + 1, Min(offset + limit, Len(all)))

\* ORDER BY created_at DESC: the rows of one timestamp unit come in the
\* order of the table scan, lowest row id first
Newer(a, b) ==
    \/ a.created > b.created
    \/ a.created = b.created /\ a.rowid < b.rowid

RECURSIVE SortNewest(_)
SortNewest(S) ==
    IF S = {} THEN <<>>
    ELSE LET first == CHOOSE x \in S : \A y \in S \ {x} : Newer(x, y)
         IN  <<first>> \o SortNewest(S \ {first})

\* the snapshots of a window as a reader sees them
WindowRows(w) == {h \in store.h : h.win = w}

\* SELECT * FROM weekly_snapshots WHERE window_period = ?
\* ORDER BY created_at DESC LIMIT 1: the row, or no row
getLatestSnapshot(w) ==
    LET all == SortNewest(WindowRows(w))
    IN  SubSeq(all, 1, Min(1, Len(all)))

\* a history that always answers with the first page
getHistoricalSnapshotsFirstPage(w, limit, offset) ==
    LET all == SortNewest(WindowRows(w))
    IN  SubSeq(all, 1, Min(limit, Len(all)))

\* SELECT * FROM weekly_snapshots WHERE window_period = ?
\* ORDER BY created_at DESC LIMIT ? OFFSET ?
getHistoricalSnapshots(w, limit, offset) ==
    LET all == SortNewest(WindowRows(w))
    IN  SubSeq(all, offset + 1, Min(offset + limit, Len(all)))

\* the four queries of getStats
StatQueries == {"totalSnapshots", "totalYappers", "latestSnapshot", "syncLogs"}

\* the stats getStats starts from; latestSnapshot: <<>> is null
ZeroStats ==
    [totalSnapshots |-> 0, totalYappers |-> 0, latestSnapshot |-> <<>>,
     syncLogs |-> 0]

\* SELECT collection_date FROM weekly_snapshots ORDER BY created_at DESC
\* LIMIT 1
latestSnapshotOldest ==
    LET all == SortNewest(store.h)
    IN  IF all = <<>> THEN <<>> ELSE <<all[Len(all)].date>>

latestSnapshot ==
    LET all == SortNewest(store.h)
    IN  IF all = <<>> THEN <<>> ELSE <<all[1].date>>

\* getStats when every query returns: the zeroed stats if weekly_snapshots
\* does not exist, else SELECT COUNT(*) FROM weekly_snapshots, FROM
\* yappers_history, the latest collection date, SELECT COUNT(*) FROM
\* webflow_sync_log
getStats ==
    IF ~store.init THEN ZeroStats
    ELSE [totalSnapshots |-> Cardinality(store.h),
          totalYappers |-> Cardinality(store.e),
          latestSnapshot |-> latestSnapshot,
          syncLogs |-> Cardinality(store.l)]

\* getStats when the queries in errs return an error ("tables": the query
\* on sqlite_master): a failed query leaves the value stats started with
getStatsFailing(errs) ==
    IF "tables" \in errs THEN ZeroStats
    ELSE [q \in StatQueries |->
             IF q \in errs THEN ZeroStats[q] ELSE getStats[q]]

----------------------------------------------------------------------------
(* Handlers *)

CollectTriggers == {"cron", "collect", "force"}
CleanupTriggers == {"cron", "cleanup", "force"}

\* The scheduler's jobs (this.jobs): the registered cron jobs in the order
\* of their registration, each started or not
JobNames == {"weekly-collection", "daily-cleanup"}

\* Calendar time in minutes from the start of the week, Sunday 00:00 (day 0
\* of moment's day()), in the time zone of the cron rules
DayMinutes == 1440
WeekMinutes == 10080

\* the current instants: every weekday and hour, on the hour and between
Instants == [day : 0..6, hour : 0..23, minute : {0, 30}]

Minute(i) == i.day * DayMinutes + i.hour * 60 + i.minute

\* the cron rules '0 10 * * 3' and '0 2 * * *'
CronWeekly == [minute |-> 0, hour |-> 10, dow |-> {3}]
CronDaily == [minute |-> 0, hour |-> 2, dow |-> 0..6]

Matches(rule, t) ==
    /\ t % 60 = rule.minute
    /\ (t % DayMinutes) \div 60 = rule.hour
    /\ (t \div DayMinutes) % 7 \in rule.dow

\* the instant at which a started job of the rule fires next after t
NextFire(rule, t) ==
    LET fires == {u \in {k * 60 + rule.minute : k \in 0..(2 * 7 * 24)} :
                     u > t /\ Matches(rule, u)}
    IN  CHOOSE u \in fires : \A v \in fires : u <= v

\* format('YYYY-MM-DD HH:mm:ss') of an instant with 0 seconds: the day, counted
\* from the Sunday of the current week, the hour and the minute
format(t) ==
    [day |-> t \div DayMinutes, hour |-> (t % DayMinutes) \div 60,
     minute |-> t % 60, second |-> 0]

\* moment().day(3).hour(10).minute(0).second(0), a week later if that is not
\* after now
nextWednesday(i) ==
    LET w == 3 * DayMinutes + 10 * 60
    IN  IF w <= Minute(i) THEN w + WeekMinutes ELSE w

\* moment().add(1, 'day').hour(2).minute(0).second(0), a day later if that
\* is not after now
nextCleanup(i) ==
    LET c == (i.day + 1) * DayMinutes + 2 * 60
    IN  IF c <= Minute(i) THEN c + DayMinutes ELSE c

getScheduleInfo(i) ==
    [nextWeeklyCollection |-> format(nextWednesday(i)),
     nextCleanup |-> format(nextCleanup(i)),
     activeJobs |-> Len(jobs)]

\* the jobs once the server has started: both registered, then startAll
StartedJobs ==
    <<[name |-> "weekly-collection", started |-> TRUE],
      [name |-> "daily-cleanup", started |-> TRUE]>>

\* a free handler slot; net: the network calls of the run's getData; stale:
\* the cache has been cleared since the handler's fetch started
Idle ==
    [op |-> None, trig |-> None, pc |-> "idle", win |-> "7d", data |-> None,
     sid |-> 0 - 1, idx |-> 0, ids |-> {}, after |-> FALSE, net |-> 0,
     stale |-> FALSE]

\* nothing has been answered yet
NoLast ==
    [op |-> None, trig |-> None, win |-> "7d", out |-> None, cause |-> None,
     data |-> None, sid |-> 0 - 1, net |-> 0, after |-> FALSE, clean |-> FALSE]

\* no returned acquire is remembered
NoMark ==
    [win |-> None, data |-> None, net |-> 0, at |-> 0, cleared |-> FALSE,
     over |-> FALSE]

\* The response cache of the routes (apiCache, a NodeCache keyed by
\* req.originalUrl), for the request GET /api/latest?window=7d
LatestUrl == "/api/latest?window=7d"
ApiUrls == {LatestUrl}

\* no response is cached under the key
NoResponse == [full |-> FALSE, body |-> NoLast, at |-> 0]

\* apiCache.flushAll()
flushAll == [u \in ApiUrls |-> NoResponse]

\* apiCache.get(key): the entry, unless its time to live has run out
apiCacheGet(u) ==
    IF apiCache[u].full /\ (now - apiCache[u].at) <= LatestTTL
    THEN apiCache[u]
    ELSE NoResponse

\* apiCache.set(key, body, duration)
apiCacheSet(u, body) ==
    [apiCache EXCEPT ![u] = [full |-> TRUE, body |-> body, at |-> now]]

\* the handler has been started and has not answered
Running(p) == proc[p].op # None /\ proc[p].pc # "rollback"

\* handler slots are interchangeable: a new handler takes the lowest free one
FreeSlot(p) ==
    /\ proc[p].pc = "idle"
    /\ \A q \in Procs : q < p => proc[q].pc # "idle"

Init ==
    /\ now = 0
    /\ jobs = StartedJobs
    /\ apiCache = flushAll
    /\ cache = EmptyCache
    /\ proc = [p \in Procs |-> Idle]
    /\ store \in {EmptyStore, OldStore}
    /\ view = store
    /\ inTxn = FALSE
    /\ nextId = 1
    /\ last = NoLast
    /\ rejected = {}
    /\ mark = NoMark

\* time passes
Tick ==
    /\ now < MaxTime
    /\ now' = now + 1
    /\ UNCHANGED <<cache, proc, store, view, inTxn, nextId, last, rejected, mark>>
    /\ UNCHANGED <<jobs, apiCache>>

----------------------------------------------------------------------------
(* The collection run: runWeeklyCollection and what its three callers do   *)
(* when it has returned.  POST /api/admin/collect clears the fetch cache   *)
(* whatever the result; the cron callback and force-schedule do not.       *)

CacheAfterRun(trig, c) == IF trig = "collect" THEN clearCache ELSE c

\* the response cache after the run: POST /api/admin/collect calls
\* apiCache.flushAll(), the cron callback and force-schedule leave it
ApiCacheAfterRun(trig) == IF trig = "collect" THEN flushAll ELSE apiCache

\* the answer of a collection run
RunResult(rec, out, cause, net) ==
    [op |-> "collect", trig |-> rec.trig, win |-> "7d", out |-> out,
     cause |-> cause, data |-> rec.data, sid |-> rec.sid, net |-> net,
     after |-> FALSE, clean |-> FALSE]

\* the entries the run hands to saveSnapshot
Yappers(rec) == extractYappers(rec.data, CollectLimit, 0)

\* runWeeklyCollection from the point where getData has returned `data`:
\* extractMetrics throws and the run fails, or extractYappers and the call of
\* saveSnapshot, which draws the snapshot id and queues BEGIN and the header
\* insert.
AfterGetData(p, rec, data, c, net) ==
    IF extractMetricsThrows(data)
    THEN /\ proc' = [proc EXCEPT ![p] = Idle]
         /\ last' = RunResult([rec EXCEPT !.data = data], "fail", "malformed", net)
         /\ cache' = CacheAfterRun(rec.trig, c)
         /\ apiCache' = ApiCacheAfterRun(rec.trig)
         /\ nextId' = nextId
    ELSE /\ proc' = [proc EXCEPT ![p] =
                        [rec EXCEPT !.data = data, !.pc = "begin",
                                    !.sid = nextId, !.net = net]]
         /\ last' = last
         /\ cache' = c
         /\ apiCache' = apiCache
         /\ nextId' = nextId + 1

\* a trigger fires: getData('7d') answers from the cache or goes to the network
StartCollection(p, t) ==
    /\ FreeSlot(p)
    /\ nextId <= MaxSnap
    /\ LET hit == checkCache("7d")
           rec == [Idle EXCEPT !.op = "collect", !.trig = t]
       IN  IF hit # None
           THEN AfterGetData(p, rec, hit, cache, 0)
           ELSE /\ proc' = [proc EXCEPT ![p] = [rec EXCEPT !.pc = "fetching"]]
                /\ UNCHANGED <<cache, nextId, last, apiCache>>
    /\ UNCHANGED <<now, store, view, inTxn, rejected, mark>>
    /\ UNCHANGED jobs

\* the direct fetch ends: resp is the payload of a 2xx answer, or "fail" for a
\* non-2xx status, a timeout or a transport error
CollectFetchReturn(p, resp) ==
    /\ proc[p].op = "collect"
    /\ proc[p].pc = "fetching"
    /\ IF resp = "fail"
       THEN /\ proc' = [proc EXCEPT ![p] = Idle]
            /\ last' = RunResult(proc[p], "fail", "upstream", 1)
            /\ cache' = CacheAfterRun(proc[p].trig, cache)
            /\ apiCache' = ApiCacheAfterRun(proc[p].trig)
            /\ nextId' = nextId
       ELSE AfterGetData(p, proc[p], resp, setCache("7d", resp), 1)
    /\ UNCHANGED <<now, store, view, inTxn, rejected, mark>>
    /\ UNCHANGED jobs

----------------------------------------------------------------------------
(* saveSnapshot on the scheduler's connection *)

\* a statement executed on the scheduler's connection: inside a transaction
\* it changes the connection's view only, outside it is committed at once
Committed(v) == IF inTxn THEN store ELSE v

\* db.serialize: BEGIN TRANSACTION and the header insert run back to back,
\* then the header's callback.  BEGIN inside an open transaction is an error
\* nobody listens to.  err: the header insert fails; the callback queues
\* ROLLBACK and rejects, which ends the run.
SaveBeginHeader(p, err) ==
    /\ proc[p].pc = "begin"
    /\ inTxn' = TRUE
    /\ IF err
       THEN /\ proc' = [proc EXCEPT ![p].pc = "rollback"]
            /\ last' = RunResult(proc[p], "fail", "header", 0)
            /\ rejected' = rejected \cup {proc[p].sid}
            /\ cache' = CacheAfterRun(proc[p].trig, cache)
            /\ apiCache' = ApiCacheAfterRun(proc[p].trig)
            /\ UNCHANGED view
       ELSE /\ proc' = [proc EXCEPT ![p].pc = "entries", ![p].idx = 0]
            /\ view' = [view EXCEPT !.h = @ \cup
                            {HeaderRow(proc[p].sid, proc[p].data, "7d")}]
            /\ UNCHANGED <<cache, last, rejected, apiCache>>
    /\ UNCHANGED <<now, store, nextId, mark>>
    /\ UNCHANGED jobs

\* the ROLLBACK queued by the header's callback
SaveRollback(p) ==
    /\ proc[p].pc = "rollback"
    /\ proc' = [proc EXCEPT ![p] = Idle]
    /\ view' = store
    /\ inTxn' = FALSE
    /\ UNCHANGED <<now, cache, store, nextId, last, rejected, mark>>
    /\ UNCHANGED <<jobs, apiCache>>

\* one yapperStmt.run and its callback: an error is logged and counted as
\* processed; the callback of the last entry queues COMMIT.  With no entry
\* there is no callback and COMMIT is never queued.
SaveEntry(p) ==
    /\ proc[p].pc = "entries"
    /\ proc[p].idx < Len(Yappers(proc[p]))
    /\ LET y == Yappers(proc[p])[proc[p].idx + 1]
           v == IF InsertFails(y)
                THEN view
                ELSE [view EXCEPT !.e = @ \cup {EntryRow(proc[p].sid, y)}]
       IN  /\ view' = v
           /\ store' = Committed(v)
    /\ proc' = [proc EXCEPT ![p].idx = @ + 1,
                            ![p].pc = IF proc[p].idx + 1 = Len(Yappers(proc[p]))
                                      THEN "commit" ELSE "entries"]
    /\ UNCHANGED <<now, cache, inTxn, nextId, last, rejected, mark>>
    /\ UNCHANGED <<jobs, apiCache>>

\* COMMIT and its callback.  Without an open transaction COMMIT is an error;
\* busy: the file is locked by a reader on the other connection, COMMIT
\* fails and the transaction stays open.  The callback rejects without a
\* ROLLBACK.
SaveCommit(p, busy) ==
    /\ proc[p].pc = "commit"
    /\ IF inTxn /\ ~busy
       THEN /\ store' = view
            /\ inTxn' = FALSE
            /\ last' = RunResult(proc[p], "ok", None, 0)
            /\ UNCHANGED rejected
       ELSE /\ last' = RunResult(proc[p], "fail", "commit", 0)
            /\ rejected' = rejected \cup {proc[p].sid}
            /\ UNCHANGED <<store, inTxn>>
    /\ proc' = [proc EXCEPT ![p] = Idle]
    /\ cache' = CacheAfterRun(proc[p].trig, cache)
    /\ apiCache' = ApiCacheAfterRun(proc[p].trig)
    /\ UNCHANGED <<now, view, nextId, mark>>
    /\ UNCHANGED jobs

----------------------------------------------------------------------------
(* The retention sweep: runCleanup, cleanOldSnapshots(12) *)

CleanResult(rec, out) ==
    [NoLast EXCEPT !.op = "cleanup", !.trig = rec.trig, !.out = out]

StartCleanup(p, t) ==
    /\ FreeSlot(p)
    /\ proc' = [proc EXCEPT ![p] = [Idle EXCEPT !.op = "cleanup", !.trig = t,
                                                !.pc = "select"]]
    /\ UNCHANGED <<now, cache, store, view, inTxn, nextId, last, rejected, mark>>
    /\ UNCHANGED <<jobs, apiCache>>

\* SELECT snapshot_id FROM weekly_snapshots WHERE collection_date < cutoff,
\* and its callback: no row resolves with zero counts
CleanSelect(p) ==
    /\ proc[p].pc = "select"
    /\ LET ids == {h.id : h \in {x \in view.h : x.date < cutoffDate}}
       IN  IF ids = {}
           THEN /\ proc' = [proc EXCEPT ![p] = Idle]
                /\ last' = CleanResult(proc[p], "ok")
           ELSE /\ proc' = [proc EXCEPT ![p].pc = "delete", ![p].ids = ids]
                /\ last' = last
    /\ UNCHANGED <<now, cache, store, view, inTxn, nextId, rejected, mark>>
    /\ UNCHANGED <<jobs, apiCache>>

\* DELETE FROM yappers_history WHERE snapshot_id IN (ids), and its callback.
\* The callback is a `function`, so its `this` is the statement and
\* `this.db.run(...)` throws: the header DELETE is never issued and the
\* promise is never settled.  The exception goes to the process's
\* uncaughtException handler, which logs it.
CleanDeleteEntries(p) ==
    /\ proc[p].pc = "delete"
    /\ LET v == [view EXCEPT !.e = {e \in @ : e.sid \notin proc[p].ids}]
       IN  /\ view' = v
           /\ store' = Committed(v)
    /\ proc' = [proc EXCEPT ![p].pc = "hung"]
    /\ UNCHANGED <<now, cache, inTxn, nextId, last, rejected, mark>>
    /\ UNCHANGED <<jobs, apiCache>>

----------------------------------------------------------------------------
(* acquire: TheoriqAPI.getData called by a data route *)

\* the call is made after the remembered one has returned, less than the TTL
\* later and with no invalidate in between
After(w) ==
    mark.win = w /\ ~mark.cleared /\ (now - mark.at) < CacheTTL

\* remember: the returned call becomes the one later calls are compared
\* with; one call is remembered per behaviour.  stored: the returning call
\* has put a payload into the cache, which is noted when it does so after
\* the remembered call on the same window.
Remember(remember, w, data, net, stored) ==
    IF mark = NoMark
    THEN IF remember
         THEN [win |-> w, data |-> data, net |-> net, at |-> now,
               cleared |-> FALSE, over |-> FALSE]
         ELSE mark
    ELSE IF stored /\ mark.win = w THEN [mark EXCEPT !.over = TRUE] ELSE mark

AcquireResult(w, out, cause, data, net, after) ==
    [NoLast EXCEPT !.op = "acquire", !.win = w, !.out = out, !.cause = cause,
                   !.data = data, !.net = net, !.after = after,
                   !.clean = ~mark.over]

StartAcquire(p, w, remember) ==
    /\ FreeSlot(p)
    /\ LET hit == checkCache(w)
       IN  IF hit # None
           THEN /\ last' = AcquireResult(w, "ok", None, hit, 0, After(w))
                /\ mark' = Remember(remember, w, hit, 0, FALSE)
                /\ proc' = proc
           ELSE /\ proc' = [proc EXCEPT ![p] =
                               [Idle EXCEPT !.op = "acquire", !.win = w,
                                            !.pc = "fetching",
                                            !.after = After(w)]]
                /\ UNCHANGED <<last, mark>>
    /\ UNCHANGED <<now, cache, store, view, inTxn, nextId, rejected>>
    /\ UNCHANGED <<jobs, apiCache>>

\* a getData that answers a failed fetch with the entry left in the cache
AcquireReturnStale(p, resp, remember) ==
    /\ proc[p].op = "acquire"
    /\ proc[p].pc = "fetching"
    /\ LET w == proc[p].win
       IN  IF resp = "fail"
           THEN /\ last' = IF cache[w] = NoEntry
                           THEN AcquireResult(w, "fail", "upstream", None, 1,
                                              proc[p].after)
                           ELSE AcquireResult(w, "ok", None, cache[w].data, 1,
                                              proc[p].after)
                /\ UNCHANGED <<cache, mark>>
           ELSE /\ last' = AcquireResult(w, "ok", None, resp, 1, proc[p].after)
                /\ cache' = setCache(w, resp)
                /\ mark' = Remember(remember, w, resp, 1, TRUE)
    /\ proc' = [proc EXCEPT ![p] = Idle]
    /\ UNCHANGED <<now, store, view, inTxn, nextId, rejected>>
    /\ UNCHANGED <<jobs, apiCache>>

\* a getData that drops the cache entry of the window when the fetch fails
AcquireReturnDrops(p, resp, remember) ==
    /\ proc[p].op = "acquire"
    /\ proc[p].pc = "fetching"
    /\ LET w == proc[p].win
       IN  IF resp = "fail"
           THEN /\ last' = AcquireResult(w, "fail", "upstream", None, 1,
                                         proc[p].after)
                /\ cache' = [cache EXCEPT ![w] = NoEntry]
                /\ UNCHANGED mark
           ELSE /\ last' = AcquireResult(w, "ok", None, resp, 1, proc[p].after)
                /\ cache' = setCache(w, resp)
                /\ mark' = Remember(remember, w, resp, 1, TRUE)
    /\ proc' = [proc EXCEPT ![p] = Idle]
    /\ UNCHANGED <<now, store, view, inTxn, nextId, rejected>>
    /\ UNCHANGED <<jobs, apiCache>>

\* a getData whose failed or timed-out fetch still writes what the
\* connection delivers into the cache
AcquireReturnLateWrite(p, resp, remember) ==
    /\ proc[p].op = "acquire"
    /\ proc[p].pc \in {"fetching", "body"}
    /\ LET w == proc[p].win
       IN  IF resp = "fail"
           THEN /\ last' = AcquireResult(w, "fail", "upstream", None, 1,
                                         proc[p].after)
                /\ cache' = setCache(w, "full")
                /\ UNCHANGED mark
           ELSE /\ last' = AcquireResult(w, "ok", None, resp, 1, proc[p].after)
                /\ cache' = setCache(w, resp)
                /\ mark' = Remember(remember, w, resp, 1, TRUE)
    /\ proc' = [proc EXCEPT ![p] = Idle]
    /\ UNCHANGED <<now, store, view, inTxn, nextId, rejected>>
    /\ UNCHANGED <<jobs, apiCache>>

AcquireReturn(p, resp, remember) ==
    /\ proc[p].op = "acquire"
    /\ proc[p].pc \in {"fetching", "body"}
    /\ LET w == proc[p].win
       IN  IF resp = "fail"
           THEN /\ last' = AcquireResult(w, "fail", "upstream", None, 1,
                                         proc[p].after)
                /\ UNCHANGED <<cache, mark>>
           ELSE /\ last' = AcquireResult(w, "ok", None, resp, 1, proc[p].after)
                /\ cache' = setCache(w, resp)
                /\ mark' = Remember(remember, w, resp, 1, TRUE)
    /\ proc' = [proc EXCEPT ![p] = Idle]
    /\ UNCHANGED <<now, store, view, inTxn, nextId, rejected>>
    /\ UNCHANGED <<jobs, apiCache>>

\* fetch resolves with a 2xx status line: clearTimeout(timeoutId), and the
\* call awaits response.json(), the body, with no timer running
AcquireHeaders(p) ==
    /\ proc[p].op = "acquire"
    /\ proc[p].pc = "fetching"
    /\ proc' = [proc EXCEPT ![p].pc = "body"]
    /\ UNCHANGED <<now, cache, store, view, inTxn, nextId, last, rejected,
                   mark, jobs, apiCache>>

\* the timer of 5 seconds fires while fetch is pending: controller.abort(),
\* fetch rejects with AbortError and getData throws
AcquireTimeout(p) ==
    /\ proc[p].pc = "fetching"
    /\ AcquireReturn(p, "fail", FALSE)

\* POST /api/admin/clear-cache: apiCache.flushAll() and api.clearCache()
ClearCache(note) ==
    /\ apiCache' = flushAll
    /\ cache' = clearCache
    /\ mark' = IF mark = NoMark THEN mark ELSE [mark EXCEPT !.cleared = TRUE]
    /\ proc' = [p \in Procs |->
                   IF note /\ proc[p].pc \in {"fetching", "body"}
                   THEN [proc[p] EXCEPT !.stale = TRUE]
                   ELSE proc[p]]
    /\ UNCHANGED <<now, store, view, inTxn, nextId, last, rejected>>
    /\ UNCHANGED jobs

----------------------------------------------------------------------------
(* Specifications *)

Responses == PayloadNames \cup {"fail"}

\* the store and the triggers: collection runs and retention sweeps that
\* overlap
Next ==
    \/ \E p \in Procs, t \in CollectTriggers : StartCollection(p, t)
    \/ \E p \in Procs, r \in Responses : CollectFetchReturn(p, r)
    \/ \E p \in Procs, err \in BOOLEAN : SaveBeginHeader(p, err)
    \/ \E p \in Procs : SaveRollback(p)
    \/ \E p \in Procs : SaveEntry(p)
    \/ \E p \in Procs, busy \in BOOLEAN : SaveCommit(p, busy)
    \/ \E p \in Procs, t \in CleanupTriggers : StartCleanup(p, t)
    \/ \E p \in Procs : CleanSelect(p)
    \/ \E p \in Procs : CleanDeleteEntries(p)

Spec == Init /\ [][Next]_vars

\* one handler at a time: collection runs, acquire calls and invalidation
\* that follow each other within one unit of the clock
SeqNext ==
    \/ \E t \in CollectTriggers : StartCollection(1, t)
    \/ \E r \in Responses : CollectFetchReturn(1, r)
    \/ \E err \in BOOLEAN : SaveBeginHeader(1, err)
    \/ SaveRollback(1)
    \/ SaveEntry(1)
    \/ \E busy \in BOOLEAN : SaveCommit(1, busy)
    \/ \E w \in Windows : StartAcquire(1, w, FALSE)
    \/ \E r \in Responses : AcquireReturn(1, r, FALSE)
    \/ ClearCache(FALSE)

SeqSpec == Init /\ [][SeqNext]_vars

\* The read routes.  A read answers in one step from the committed rows.
NoPage == [limit |-> 0, offset |-> 0, rows |-> <<>>]

ReadResult(op, w, limit, offset, rows, prev) ==
    [op |-> op, trig |-> None, win |-> w, out |-> "ok", cause |-> None,
     data |-> None, sid |-> 0 - 1, net |-> 0, after |-> FALSE,
     clean |-> FALSE, limit |-> limit, offset |-> offset, rows |-> rows,
     prev |-> prev]

\* GET /api/latest
ReadLatest(w) ==
    /\ last' = ReadResult("latest", w, 1, 0, getLatestSnapshot(w), NoPage)
    /\ UNCHANGED <<now, cache, proc, store, view, inTxn, nextId, rejected,
                   mark>>
    /\ UNCHANGED <<jobs, apiCache>>

\* GET /api/history; prev: the page the preceding history call for the same
\* window has answered with
ReadHistory(w, limit, offset) ==
    /\ last' = ReadResult("history", w, limit, offset,
                          getHistoricalSnapshots(w, limit, offset),
                          IF last.op = "history" /\ last.win = w
                          THEN [limit |-> last.limit, offset |-> last.offset,
                                rows |-> last.rows]
                          ELSE NoPage)
    /\ UNCHANGED <<now, cache, proc, store, view, inTxn, nextId, rejected,
                   mark>>
    /\ UNCHANGED <<jobs, apiCache>>

\* getCompleteSnapshot's answer once the header row and the page of entries
\* have been read: the header with the page, whatever the page holds
CompleteSnapshotHidesEmpty(header, yappers) ==
    IF yappers = <<>> THEN <<>>
    ELSE <<[header |-> header, yappers |-> yappers]>>

CompleteSnapshot(header, yappers) ==
    <<[header |-> header, yappers |-> yappers]>>

\* what GET /api/snapshot/:snapshotId answers with: 404 when
\* getCompleteSnapshot resolves null
CompleteResult(sid, limit, offset, rows) ==
    [ReadResult("complete", "7d", limit, offset, rows, NoPage)
        EXCEPT !.sid = sid,
               !.out = IF rows = <<>> THEN "notfound" ELSE "ok"]

\* a getCompleteSnapshot that has read the header row h and awaits the
\* entries
Completing(sid, h, limit, offset) ==
    [op |-> "complete", trig |-> None, pc |-> "yappers", win |-> h.win,
     data |-> None, sid |-> sid, idx |-> 0, ids |-> {}, after |-> FALSE,
     net |-> 0, stale |-> FALSE, header |-> h, limit |-> limit, offset |-> offset]

\* GET /api/snapshot/:snapshotId, up to the header query: no row resolves
\* null
StartComplete(p, sid, limit, offset) ==
    /\ FreeSlot(p)
    /\ IF ~store.init \/ snapshotHeader(sid) = {}
       THEN /\ last' = CompleteResult(sid, limit, offset, <<>>)
            /\ proc' = proc
       ELSE /\ proc' = [proc EXCEPT ![p] =
                           Completing(sid, CHOOSE h \in snapshotHeader(sid) : TRUE,
                                      limit, offset)]
            /\ last' = last
    /\ UNCHANGED <<now, cache, store, view, inTxn, nextId, rejected, mark>>
    /\ UNCHANGED <<jobs, apiCache>>

\* the entries query of getCompleteSnapshot returns
FinishComplete(p) ==
    /\ proc[p].op = "complete" /\ proc[p].pc = "yappers"
    /\ last' = CompleteResult(proc[p].sid, proc[p].limit, proc[p].offset,
                              CompleteSnapshot(proc[p].header,
                                  getYappersForSnapshot(proc[p].sid,
                                      proc[p].limit, proc[p].offset)))
    /\ proc' = [proc EXCEPT ![p] = Idle]
    /\ UNCHANGED <<now, cache, store, view, inTxn, nextId, rejected, mark>>
    /\ UNCHANGED <<jobs, apiCache>>

\* the snapshot ids and pages a reader asks for
AskedIds == {0, 1}

\* the retention sweeps, each started when the one before has run all its
\* statements, on the days that pass, and the readers of single snapshots
PruneNext ==
    \/ Tick
    \/ \E p \in Procs, t \in CleanupTriggers :
           /\ \A q \in Procs : proc[q].pc \in {"idle", "hung"}
           /\ StartCleanup(p, t)
    \/ \E p \in Procs : CleanSelect(p)
    \/ \E p \in Procs : CleanDeleteEntries(p)
    \/ \E p \in Procs, sid \in AskedIds, limit \in {1, CollectLimit},
          offset \in {0, 1} : StartComplete(p, sid, limit, offset)
    \/ \E p \in Procs : FinishComplete(p)

PruneSpec == Init /\ [][PruneNext]_vars

\* A query parameter of a request: absent, a text that parseInt cannot
\* read, or a number
Absent == [k |-> "absent", v |-> 0]
Text == [k |-> "text", v |-> 0]
Num(n) == [k |-> "num", v |-> n]

ValidWindows == {"7d", "30d", "3m", "6m", "12m"}

\* the validateParams middleware on the path parameter window (None: the
\* route has none) and the query parameters limit and offset
validateParams(pwin, limit, offset) ==
    IF pwin # None /\ pwin \notin ValidWindows THEN "reject"
    ELSE IF limit.k = "text" \/ (limit.k = "num" /\ limit.v <= 0)
         THEN "reject"
    ELSE IF offset.k = "text" \/ (offset.k = "num" /\ offset.v < 0)
         THEN "reject"
    ELSE "next"

\* the 400 answer of validateParams to a request of a read route
Reject(op, w) ==
    [ReadResult(op, w, 0, 0, <<>>, NoPage) EXCEPT !.out = "rejected"]

\* GET /api/latest?window=&limit=&offset= behind validateParams; qwin None:
\* no window in the query
GetLatest(qwin, limit, offset) ==
    IF validateParams(None, limit, offset) = "reject"
    THEN /\ last' = Reject("latest", qwin)
         /\ UNCHANGED <<now, cache, proc, store, view, inTxn, nextId,
                        rejected, mark, jobs, apiCache>>
    ELSE ReadLatest(IF qwin = None THEN "7d" ELSE qwin)

\* GET /api/history?window=&limit=&offset= behind validateParams
GetHistory(qwin, limit, offset) ==
    IF validateParams(None, limit, offset) = "reject"
    THEN /\ last' = Reject("history", qwin)
         /\ UNCHANGED <<now, cache, proc, store, view, inTxn, nextId,
                        rejected, mark, jobs, apiCache>>
    ELSE ReadHistory(IF qwin = None THEN "7d" ELSE qwin,
                     IF limit.k = "absent" THEN 10 ELSE Min(limit.v, 250),
                     IF offset.k = "absent" THEN 0 ELSE offset.v)

\* the queries of the requests to a read route: the pages of the supported
\* windows, no parameter at all, a window that is not supported, a limit
\* and an offset that are not numbers or out of range
Queries(limits, offsets) ==
    [win : Windows, limit : {Num(n) : n \in limits},
     offset : {Num(n) : n \in offsets}] \cup
    {[win |-> None, limit |-> Absent, offset |-> Absent],
     [win |-> "1y", limit |-> Num(1), offset |-> Num(0)],
     [win |-> "7d", limit |-> Text, offset |-> Num(0)],
     [win |-> "7d", limit |-> Num(0), offset |-> Num(0)],
     [win |-> "7d", limit |-> Num(1), offset |-> Text],
     [win |-> "7d", limit |-> Num(1), offset |-> Num(0 - 1)]}

\* GET /api/admin/stats, with the queries that fail
ReadStats(errs) ==
    /\ last' = [op |-> "stats", trig |-> None, win |-> "7d", out |-> "ok",
                cause |-> None, data |-> None, sid |-> 0 - 1, net |-> 0,
                after |-> FALSE, clean |-> FALSE, errs |-> errs,
                stats |-> getStatsFailing(errs)]
    /\ UNCHANGED <<now, cache, proc, store, view, inTxn, nextId, rejected,
                   mark>>
    /\ UNCHANGED <<jobs, apiCache>>

\* initDatabase: db.initTables() on the server's connection; runs counts
\* the calls in a row, up to the second
InitTables ==
    /\ store' = initTables(store)
    /\ view' = store'
    /\ last' = [op |-> "initTables", trig |-> None, win |-> "7d", out |-> "ok",
                cause |-> None, data |-> None, sid |-> 0 - 1, net |-> 0,
                after |-> FALSE, clean |-> FALSE,
                runs |-> IF last.op = "initTables" THEN 2 ELSE 1]
    /\ UNCHANGED <<now, cache, proc, inTxn, nextId, rejected, mark>>
    /\ UNCHANGED <<jobs, apiCache>>

\* the stores that n successful weekly runs leave, written at times that do
\* not decrease
WrittenStore(n, t) ==
    [h |-> {HeaderRowAt(i, "full", "7d", t[i], i) : i \in 1..n},
     e |-> UNION {{EntryRow(i, extractYappers("full", CollectLimit, 0)[k]) :
                      k \in 1..Len(extractYappers("full", CollectLimit, 0))} :
                  i \in 1..n},
     l |-> {}, init |-> TRUE]

\* the rows logWebflowSync has inserted for the first snapshots
SyncLogs(n) == {[id |-> i, sid |-> i, status |-> "success"] : i \in 1..n}

\* the database files a process finds: without tables, or with what the
\* weekly runs have written, after an earlier process that has left an old
\* snapshot and logged one sync or after none
ReadStores ==
    {NoTables} \cup
    {[WrittenStore(Cardinality(DOMAIN t), t)
         EXCEPT !.h = {[h EXCEPT !.rowid = @ + Cardinality(old.h)] : h \in @}
                          \cup old.h,
                !.e = @ \cup old.e,
                !.l = SyncLogs(Min(Cardinality(old.h),
                                   Cardinality(DOMAIN t)))] :
        t \in {f \in UNION {[1..m -> 0..MaxTime] : m \in 0..MaxRows} :
                  \A i, j \in DOMAIN f : i < j => f[i] <= f[j]},
        old \in {EmptyStore, OldStore}}

ReadInit ==
    /\ now = MaxTime
    /\ jobs = StartedJobs
    /\ apiCache = flushAll
    /\ cache = EmptyCache
    /\ proc = [p \in Procs |-> Idle]
    /\ store \in ReadStores
    /\ view = store
    /\ inTxn = FALSE
    /\ nextId = MaxRows + 1
    /\ last = NoLast
    /\ rejected = {}
    /\ mark = NoMark

PageLimits == {1, 2}

ReadNext ==
    \/ \E q \in Queries({1}, {0}) : GetLatest(q.win, q.limit, q.offset)
    \/ \E q \in Queries(PageLimits, 0..MaxRows) :
           GetHistory(q.win, q.limit, q.offset)
    \/ \E errs \in {{}} \cup {{q} : q \in StatQueries \cup {"tables"}} :
           ReadStats(errs)
    \/ InitTables

ReadSpec == ReadInit /\ [][ReadNext]_vars

\* The scheduler service alone: registration of the jobs, startAll,
\* stopAll and getScheduleInfo, called in any order at any instant.

\* scheduleWeeklyCollection, scheduleDailyCleanup: cron.schedule with
\* scheduled: false, and this.jobs.push; each is called once
ScheduleJob(name) ==
    /\ \A k \in DOMAIN jobs : jobs[k].name # name
    /\ jobs' = Append(jobs, [name |-> name, started |-> FALSE])
    /\ UNCHANGED <<now, cache, proc, store, view, inTxn, nextId, last,
                   rejected, mark, apiCache>>

StartAll ==
    /\ jobs' = [k \in DOMAIN jobs |-> [jobs[k] EXCEPT !.started = TRUE]]
    /\ UNCHANGED <<now, cache, proc, store, view, inTxn, nextId, last,
                   rejected, mark, apiCache>>

StopAll ==
    /\ jobs' = [k \in DOMAIN jobs |-> [jobs[k] EXCEPT !.started = FALSE]]
    /\ UNCHANGED <<now, cache, proc, store, view, inTxn, nextId, last,
                   rejected, mark, apiCache>>

\* GET /api/admin/schedule at the instant i
GetScheduleInfo(i) ==
    /\ last' = [op |-> "scheduleInfo", trig |-> None, win |-> "7d",
                out |-> "ok", cause |-> None, data |-> None, sid |-> 0 - 1,
                net |-> 0, after |-> FALSE, clean |-> FALSE, at |-> i,
                info |-> getScheduleInfo(i)]
    /\ UNCHANGED <<now, cache, proc, store, view, inTxn, nextId, rejected,
                   mark, jobs, apiCache>>

ScheduleInit ==
    /\ now = 0
    /\ cache = EmptyCache
    /\ proc = [p \in Procs |-> Idle]
    /\ store = EmptyStore
    /\ view = store
    /\ inTxn = FALSE
    /\ nextId = 1
    /\ last = NoLast
    /\ rejected = {}
    /\ mark = NoMark
    /\ jobs = <<>>
    /\ apiCache = flushAll

ScheduleNext ==
    \/ \E name \in JobNames : ScheduleJob(name)
    \/ StartAll
    \/ StopAll
    \/ \E i \in Instants : GetScheduleInfo(i)

ScheduleSpec == ScheduleInit /\ [][ScheduleNext]_vars

\* the fetch client alone: overlapping acquire calls, invalidation, time
CacheResponses == {"fail", "empty", "full"}

CacheNext ==
    \/ Tick
    \/ \E p \in Procs, w \in Windows, m \in BOOLEAN : StartAcquire(p, w, m)
    \/ \E p \in Procs, r \in CacheResponses, m \in BOOLEAN : AcquireReturn(p, r, m)
    \/ ClearCache(FALSE)

CacheSpec == Init /\ [][CacheNext]_vars

\* the fetch client with the two awaits of a miss apart: the status line,
\* then the body.  The timer of a pending fetch fires in the end.
FetchNext ==
    \/ Tick
    \/ \E p \in Procs, w \in Windows : StartAcquire(p, w, FALSE)
    \/ \E p \in Procs : AcquireHeaders(p)
    \/ \E p \in Procs, r \in CacheResponses : AcquireReturn(p, r, FALSE)
    \/ ClearCache(TRUE)

FetchSpec ==
    Init /\ [][FetchNext]_vars /\ \A p \in Procs : WF_vars(AcquireTimeout(p))

----------------------------------------------------------------------------
(* The test run: GET /api/admin/test, SchedulerService.testRun *)

\* the answer of a test run: success with the metrics and the first five of
\* extractYappers(data, 10), or the failure with its message
TestResult(rec, out, cause, data, net) ==
    [NoLast EXCEPT !.op = "test", !.trig = rec.trig, !.out = out,
                   !.cause = cause, !.data = data, !.net = net]

\* a test run that goes on as the collection run does
AfterTestDataSaves(p, rec, data, c, net) == AfterGetData(p, rec, data, c, net)

\* testRun from the point where getData has returned `data`: extractMetrics
\* throws and the catch answers, or the extracted values are answered
AfterTestData(p, rec, data, c, net) ==
    /\ proc' = [proc EXCEPT ![p] = Idle]
    /\ last' = IF extractMetricsThrows(data)
               THEN TestResult(rec, "fail", "malformed", data, net)
               ELSE TestResult(rec, "ok", None, data, net)
    /\ cache' = c
    /\ apiCache' = apiCache
    /\ nextId' = nextId

\* the route calls testRun: getData('7d') answers from the cache or goes to
\* the network
StartTest(p) ==
    /\ FreeSlot(p)
    /\ LET hit == checkCache("7d")
           rec == [Idle EXCEPT !.op = "test", !.trig = "test"]
       IN  IF hit # None
           THEN AfterTestData(p, rec, hit, cache, 0)
           ELSE /\ proc' = [proc EXCEPT ![p] = [rec EXCEPT !.pc = "fetching"]]
                /\ UNCHANGED <<cache, nextId, last, apiCache>>
    /\ UNCHANGED <<now, store, view, inTxn, rejected, mark>>
    /\ UNCHANGED jobs

\* the fetch of the test run ends
TestFetchReturn(p, resp) ==
    /\ proc[p].op = "test"
    /\ proc[p].pc = "fetching"
    /\ IF resp = "fail"
       THEN /\ proc' = [proc EXCEPT ![p] = Idle]
            /\ last' = TestResult(proc[p], "fail", "upstream", None, 1)
            /\ UNCHANGED <<cache, nextId, apiCache>>
       ELSE AfterTestData(p, proc[p], resp, setCache("7d", resp), 1)
    /\ UNCHANGED <<now, store, view, inTxn, rejected, mark>>
    /\ UNCHANGED jobs

\* test runs between collection runs, one handler at a time
TestNext ==
    \/ Tick
    \/ StartCollection(1, "cron")
    \/ \E r \in Responses : CollectFetchReturn(1, r)
    \/ \E err \in BOOLEAN : SaveBeginHeader(1, err)
    \/ SaveRollback(1)
    \/ SaveEntry(1)
    \/ \E busy \in BOOLEAN : SaveCommit(1, busy)
    \/ StartTest(1)
    \/ \E r \in Responses : TestFetchReturn(1, r)

TestSpec == Init /\ [][TestNext]_vars

----------------------------------------------------------------------------
(* GET /api/latest?window=7d with its response cache, cacheMiddleware(600) *)

\* cacheMiddleware answers with the cached response when there is one;
\* otherwise the handler reads the latest snapshot and res.json stores the
\* body when it is a success, which it is when a snapshot was found
CachedLatest ==
    LET hit == apiCacheGet(LatestUrl)
        body == ReadResult("latest", "7d", 1, 0, getLatestSnapshot("7d"), NoPage)
    IN  /\ last' = IF hit.full THEN hit.body ELSE body
        /\ apiCache' = IF hit.full
                       THEN apiCache
                       ELSE IF body.rows # <<>>
                            THEN apiCacheSet(LatestUrl, body)
                            ELSE [apiCache EXCEPT ![LatestUrl] = NoResponse]
        /\ UNCHANGED <<now, cache, proc, store, view, inTxn, nextId, rejected,
                       mark, jobs>>

\* collection runs one after another, the cached latest route,
\* clear-cache, time
LatestNext ==
    \/ Tick
    \/ \E t \in CollectTriggers : StartCollection(1, t)
    \/ \E r \in Responses : CollectFetchReturn(1, r)
    \/ \E err \in BOOLEAN : SaveBeginHeader(1, err)
    \/ SaveRollback(1)
    \/ SaveEntry(1)
    \/ \E busy \in BOOLEAN : SaveCommit(1, busy)
    \/ CachedLatest
    \/ ClearCache(FALSE)

LatestSpec == Init /\ [][LatestNext]_vars

----------------------------------------------------------------------------
(* Properties *)

\* the ranked entries handed to the save of the run that answered last
LastYappers == extractYappers(last.data, CollectLimit, 0)

\* the step in which the collection run of p reports success
CollectSucceeds(p) ==
    /\ proc[p].op = "collect" /\ proc[p].pc = "commit"
    /\ proc'[p].pc = "idle" /\ last'.out = "ok"

\* C1: save is all-or-nothing.  When a save during which an entry insert
\* failed has ended, no header row and no entry row with its snapshot id is
\* visible to a reader.
C1_SaveAllOrNothing ==
    (/\ last.op = "collect" /\ last.sid > 0 /\ last.cause # "header"
     /\ \E i \in 1..Len(LastYappers) : InsertFails(LastYappers[i]))
        => (snapshotHeader(last.sid) = {}
            /\ getYapperCountForSnapshot(last.sid) = 0)

\* C2: per-trigger mutual exclusion.  At most one run of the collection
\* action is Running and at most one run of the retention action is Running.
C2_MutualExclusion ==
    /\ Cardinality({p \in Procs : proc[p].op = "collect" /\ Running(p)}) <= 1
    /\ Cardinality({p \in Procs : proc[p].op = "cleanup" /\ Running(p)}) <= 1

\* C3: a save that reported failure leaves no row.  For every snapshot id
\* whose save was rejected, no header and no entry with that id is visible,
\* at the moment of the failure and after every later store operation.
C3_FailedSaveLeavesNothing ==
    \A sid \in rejected :
        snapshotHeader(sid) = {} /\ getYapperCountForSnapshot(sid) = 0

\* C4: no read observes a partially written snapshot.  While a save is in
\* flight a reader sees for its snapshot id either no header and no entry,
\* or the header together with all N entries (stated for the behaviours in
\* which no save has failed).
C4_NoPartialSnapshot ==
    \A p \in Procs :
        (/\ rejected = {}
         /\ proc[p].op = "collect"
         /\ proc[p].pc \in {"begin", "entries", "commit"})
            => \/ /\ snapshotHeader(proc[p].sid) = {}
                  /\ getYapperCountForSnapshot(proc[p].sid) = 0
               \/ /\ snapshotHeader(proc[p].sid) # {}
                  /\ getYapperCountForSnapshot(proc[p].sid)
                         = Len(Yappers(proc[p]))

\* the next step of the run in slot p
RunStep(p) ==
    \/ \E r \in Responses : CollectFetchReturn(p, r)
    \/ \E err \in BOOLEAN : SaveBeginHeader(p, err)
    \/ SaveEntry(p)
    \/ \E busy \in BOOLEAN : SaveCommit(p, busy)
    \/ CleanSelect(p)
    \/ CleanDeleteEntries(p)

\* the sequential handlers where the database executes what is queued: a
\* statement issued on the connection runs in the end and its callback is
\* called
SaveSpec ==
    Init /\ [][SeqNext]_vars /\ WF_vars(RunStep(1)) /\ WF_vars(SaveRollback(1))

\* C5: every started run finishes.  A run of the collection action or of the
\* retention action that is Running always has a step left that leads it to
\* its answer; no run stays Running forever.
C5_NoRunStuck == \A p \in Procs : Running(p) => ENABLED RunStep(p)

\* C6: a collection run that reports success adds exactly one snapshot.  The
\* snapshot count of stats grows by 1, the entry count of the new snapshot
\* is the number of ranked entries extracted from the payload, its metrics
\* are the payload's, and the rows stored before are unchanged.
C6_SuccessAddsOneSnapshot ==
    [][\A p \in Procs :
          CollectSucceeds(p) =>
              /\ getStats'.totalSnapshots = getStats.totalSnapshots + 1
              /\ getYapperCountForSnapshot(proc[p].sid)'
                     = Len(Yappers(proc[p]))
              /\ \E h \in snapshotHeader(proc[p].sid)' :
                     h.metrics = extractMetrics(proc[p].data)
              /\ store.h \subseteq store'.h
              /\ store.e \subseteq store'.e
              /\ \A e \in store'.e \ store.e : e.sid = proc[p].sid]_vars

\* the step in which a collection run ends before anything is saved, with
\* the answer of a miss (net = 1) or of a cache hit (net = 0)
FailsBeforeSave ==
    \/ \E p \in Procs :
           /\ proc[p].op = "collect" /\ proc[p].pc = "fetching"
           /\ proc'[p].pc = "idle"
    \/ /\ last' # last /\ last'.op = "collect" /\ last'.sid < 0

\* C7: a collection run that fails because every data source failed or
\* because the payload has no community_mindshare object reports failure
\* with that cause and writes nothing: headers and entries, committed or
\* pending, are the same before and after, and no header made from such a
\* payload is ever written.
C7_FailedRunWritesNothing ==
    [][/\ FailsBeforeSave =>
              /\ last'.op = "collect" /\ last'.out = "fail"
              /\ last'.cause \in {"upstream", "malformed"}
              /\ (last'.cause = "malformed") = extractMetricsThrows(last'.data)
              /\ store' = store /\ view' = view /\ inTxn' = inTxn
       /\ \A p \in Procs :
              (proc[p].op = "collect" /\ proc[p].pc = "fetching"
                   /\ proc'[p].pc = "begin")
                  => Payload(proc'[p].data).cm
       /\ \A h \in store'.h \cup view'.h : h.metrics # <<>>]_vars

\* C7 witness: a run has failed on a payload without community_mindshare
\* while the store holds a snapshot written by an earlier run.
C7_Witness ==
    /\ last.op = "collect" /\ last.out = "fail" /\ last.cause = "malformed"
    /\ snapshotHeader(1) # {}

\* C8: every collection run that succeeds, fired by the weekly schedule or
\* on demand, invalidates the fetch cache after the snapshot is written.
C8_SuccessInvalidatesCache ==
    [][\A p \in Procs : CollectSucceeds(p) => cache' = EmptyCache]_vars

\* the step in which an acquire for window w goes to the network
AcquireMisses(w) ==
    \E p \in Procs :
        /\ proc[p].pc = "idle"
        /\ proc'[p].op = "acquire" /\ proc'[p].win = w
        /\ proc'[p].pc = "fetching"

\* the step in which an acquire is answered from the cache
AcquireHits == last' # last /\ last'.op = "acquire" /\ last'.net = 0

\* C9 as stated: after POST /api/admin/collect has succeeded, the next
\* acquire for the collected window, issued within the TTL, is served from
\* the cache and makes no network call.
C9_AcquireAfterCollectHits ==
    [][(/\ last.op = "collect" /\ last.trig = "collect" /\ last.out = "ok"
        /\ now < CacheTTL)
           => ~AcquireMisses("7d")]_vars

\* C9 amended: when POST /api/admin/collect has succeeded the fetch cache is
\* empty, and an acquire is served from the cache only when the cache holds
\* an entry for its window; so the acquire that follows the run goes to the
\* network.
C9_CollectLeavesCacheEmpty ==
    [][/\ \A p \in Procs :
              (CollectSucceeds(p) /\ proc[p].trig = "collect")
                  => cache' = EmptyCache
       /\ AcquireHits =>
              /\ cache[last'.win] # NoEntry
              /\ last'.data = cache[last'.win].data
       /\ (/\ last.op = "collect" /\ last.trig = "collect" /\ last.out = "ok"
           /\ \E p \in Procs : proc[p].pc = "idle" /\ proc'[p].op = "acquire")
              => AcquireMisses("7d") \/ AcquireMisses("30d")]_vars

\* C9 witness: the acquire that follows a successful POST /api/admin/collect
\* within the TTL is waiting for the network.
C9_Witness ==
    /\ last.op = "collect" /\ last.trig = "collect" /\ last.out = "ok"
    /\ now < CacheTTL
    /\ \E p \in Procs :
           /\ proc[p].op = "acquire" /\ proc[p].pc = "fetching"
           /\ proc[p].win = "7d"

C11_FallbacksTried ==
    (last.op = "acquire" /\ last.out = "fail")
        => last.net = 1 + Len(proxyUrls)

\* the step in which the getData call of slot p returns or throws
AcquireEnds(p) ==
    /\ proc[p].op = "acquire" /\ proc[p].pc = "fetching"
    /\ proc'[p].pc = "idle"

\* C12: when every source has failed acquire fails with the 'all sources
\* exhausted' error and returns no payload.  A payload is only ever returned
\* from a cache entry younger than the TTL or from the fetch just made; an
\* entry older than the TTL is never returned in place of a failed fetch.
C12_NoStaleSubstitute ==
    [][/\ \A p \in Procs :
              AcquireEnds(p) =>
                  \/ /\ last'.out = "fail" /\ last'.cause = "upstream"
                     /\ last'.data = None
                  \/ /\ last'.out = "ok"
                     /\ cache'[proc[p].win]
                            = [data |-> last'.data, timestamp |-> now]
       /\ AcquireHits =>
              /\ cache[last'.win] # NoEntry
              /\ (now - cache[last'.win].timestamp) < CacheTTL
              /\ last'.data = cache[last'.win].data]_vars

\* C12 witness: an acquire has failed while the cache holds an entry for its
\* window that is older than the TTL.
C12_Witness ==
    /\ last.op = "acquire" /\ last.out = "fail" /\ last.data = None
    /\ cache[last.win] # NoEntry
    /\ (now - cache[last.win].timestamp) >= CacheTTL

\* a step of an acquire call: its start, its cache hit or its return
AcquireStep ==
    \/ \E p \in Procs : proc[p].pc = "idle" /\ proc'[p].op = "acquire"
    \/ \E p \in Procs : AcquireEnds(p)
    \/ AcquireHits

\* C13: acquire mutates the cache on success only.  A failing acquire leaves
\* every cache entry, payload and fetch time, as it was; a starting acquire
\* and a cache hit leave the cache alone; a successful fetch changes the
\* entry of its own window only; no step of an acquire writes to the store.
C13_AcquireFrame ==
    [][/\ AcquireStep => (store' = store /\ view' = view /\ inTxn' = inTxn)
       /\ \A p \in Procs :
              (AcquireEnds(p) /\ last'.out = "fail") => cache' = cache
       /\ \A p \in Procs :
              (AcquireEnds(p) /\ last'.out = "ok") =>
                  \A w \in Windows \ {proc[p].win} : cache'[w] = cache[w]
       /\ (AcquireStep /\ \A p \in Procs : ~AcquireEnds(p))
              => cache' = cache]_vars

\* C13 witness: an acquire has failed and the cache still holds entries, one
\* of them for the window of the failed call.
C13_Witness ==
    /\ last.op = "acquire" /\ last.out = "fail"
    /\ cache[last.win] # NoEntry
    /\ \A w \in Windows : cache[w] # NoEntry

\* the step of invalidate(): the cache changes while no handler moves
InvalidateStep ==
    /\ cache' # cache /\ last' = last /\ now' = now
    /\ \A p \in Procs : proc'[p].pc = proc[p].pc

\* C14: invalidate() clears the entire cache.  Right after it no window has
\* an entry, and while the cache holds no entry no acquire is answered from
\* it: the next acquire(W) goes to the network.
C14_InvalidateClearsAll ==
    [][/\ InvalidateStep =>
              \A w \in Windows : cache'[w] = NoEntry /\ checkCache(w)' = None
       /\ cache = EmptyCache => ~AcquireHits]_vars

\* C14 witness: after an invalidate that followed a successful acquire the
\* cache is empty and the next acquire for that window waits for the
\* network.
C14_Witness ==
    /\ mark # NoMark /\ mark.cleared
    /\ cache = EmptyCache
    /\ \E p \in Procs :
           /\ proc[p].op = "acquire" /\ proc[p].pc = "fetching"
           /\ proc[p].win = mark.win

\* the payload has a numeric field that is not a number
MalformedNumeric(name) ==
    /\ name \in PayloadNames
    /\ \/ \E i \in 1..Len(Payload(name).metrics) :
              Payload(name).metrics[i] = NonNumeric
       \/ \E i \in 1..Len(Payload(name).yappers) :
              Payload(name).yappers[i].rank = NonNumeric

\* C15: a payload with a non-numeric numeric field fails the extraction as a
\* whole: the collection run on it fails and writes no snapshot, and no
\* stored header carries a metric that is not a number.
C15_MalformedNumberNotPersisted ==
    /\ (last.op = "collect" /\ MalformedNumeric(last.data))
           => /\ last.out = "fail"
              /\ snapshotHeader(last.sid) = {}
              /\ getYapperCountForSnapshot(last.sid) = 0
    /\ \A h \in store.h :
           \A i \in 1..Len(h.metrics) : h.metrics[i] # NonNumeric

\* C16: for every stored snapshot with N entries the entries come back in
\* strictly ascending rank order and their ranks are exactly 1..N.
C16_RanksContiguous ==
    \A h \in store.h :
        LET r == getYappersForSnapshot(h.id, CollectLimit, 0)
        IN  /\ Len(r) = getYapperCountForSnapshot(h.id)
            /\ \A i \in 1..Len(r) : r[i].rank = i

\* C17: latest(window) returns none when the store holds no snapshot of the
\* window, and otherwise the snapshot of the window with the greatest
\* collection date, among those of equal date the one written last.
C17_LatestIsLastWritten ==
    \A w \in Windows :
        LET r == getLatestSnapshot(w)
        IN  /\ (WindowRows(w) = {}) = (r = <<>>)
            /\ r # <<>> =>
                   \A g \in WindowRows(w) :
                       \/ g.date < r[1].date
                       \/ g.date = r[1].date /\ g.rowid <= r[1].rowid

\* the rows of a page
PageRows(page) == {page[i] : i \in 1..Len(page)}

\* C18: on a store with at least 4 snapshots of a window, history(window,
\* 2, 0) followed by history(window, 2, 2) gives two disjoint pages that
\* together are the first 4 snapshots of one newest-first ordering: none on
\* both pages, none of the first 4 missing, also when snapshots share a
\* timestamp unit.
C18_PagesPartition ==
    (/\ last.op = "history" /\ last.limit = 2 /\ last.offset = 2
     /\ last.prev.limit = 2 /\ last.prev.offset = 0
     /\ Cardinality(WindowRows(last.win)) >= 4)
        => LET both == last.prev.rows \o last.rows
           IN  /\ Len(last.prev.rows) = 2 /\ Len(last.rows) = 2
               /\ PageRows(last.prev.rows) \cap PageRows(last.rows) = {}
               /\ \A i, j \in 1..4 : i # j => both[i] # both[j]
               /\ \A i, j \in 1..4 : i < j => both[i].created >= both[j].created
               /\ \A g \in WindowRows(last.win) \ PageRows(both) :
                      \A i \in 1..4 : g.created <= both[i].created

\* C18 witness: the two pages have been read from a store of at least 4
\* snapshots in which the second and the third newest share a timestamp
\* unit.
C18_Witness ==
    /\ last.op = "history" /\ last.limit = 2 /\ last.offset = 2
    /\ last.prev.limit = 2 /\ last.prev.offset = 0
    /\ Cardinality(WindowRows(last.win)) >= 4
    /\ Len(last.prev.rows) = 2 /\ Len(last.rows) = 2
    /\ last.prev.rows[2].created = last.rows[1].created

\* a retention sweep has run every statement it issues
PruneHasRun == \E q \in Procs : proc[q].op = "cleanup" /\ proc[q].pc = "hung"

\* C19: after prune(retentionWeeks) has run, no snapshot header with a
\* collection date older than the cutoff remains, and no entry of such a
\* snapshot.
C19_PruneRemovesOld ==
    PruneHasRun =>
        /\ \A h \in store.h : h.date >= cutoffDate
        /\ \A e \in store.e : snapshotHeader(e.sid) # {}

\* C20: prune is idempotent.  A prune that is run after another prune has
\* run finds no matching row: it answers with zero counts and leaves the
\* store as it was.
C20_SecondPruneIsNoOp ==
    [][\A p \in Procs :
          (/\ PruneHasRun
           /\ proc[p].op = "cleanup" /\ proc[p].pc = "select"
           /\ proc'[p].pc # "select")
              => /\ proc'[p].pc = "idle"
                 /\ last'.op = "cleanup" /\ last'.out = "ok"
                 /\ store' = store /\ view' = view]_vars

\* C21: referential integrity.  In every reachable state, every visible
\* entry row refers to a snapshot id whose header row is visible.
C21_ReferentialIntegrity ==
    \A e \in store.e : snapshotHeader(e.sid) # {}

\* C22: a visible snapshot is immutable.  While the header of a snapshot
\* stays visible, the set of entries stored for it does not change: no
\* step adds an entry to it or deletes one from it.
C22_VisibleSnapshotImmutable ==
    [][\A h \in store.h \cap store'.h :
          {e \in store'.e : e.sid = h.id} = {e \in store.e : e.sid = h.id}]_vars

\* C23: getCompleteSnapshot tells a snapshot that does not exist from one
\* that has no entries.  It answers none only when no header row has the
\* id; once it has found the header it answers with that header and the
\* page of entries, also when the page is empty.
C23_NotFoundIsNotEmpty ==
    [][\A p \in Procs :
          /\ (proc[p].op # "complete" /\ proc'[p].op = "complete")
                 => proc'[p].header \in snapshotHeader(proc'[p].sid)
          /\ (last' # last /\ last'.op = "complete" /\ last'.rows = <<>>)
                 => snapshotHeader(last'.sid) = {} /\ last'.out = "notfound"
          /\ (proc[p].op = "complete" /\ proc'[p].op # "complete")
                 => /\ last'.op = "complete" /\ last'.out = "ok"
                    /\ last'.sid = proc[p].sid
                    /\ Len(last'.rows) = 1
                    /\ last'.rows[1].header = proc[p].header
                    /\ last'.rows[1].yappers =
                           getYappersForSnapshot(proc[p].sid, proc[p].limit,
                                                 proc[p].offset)]_vars

\* C23 witness: a snapshot whose header is stored and that has no entry has
\* been asked for from its first entry on, and the answer is its header with
\* an empty page.
C23_Witness ==
    /\ last.op = "complete" /\ last.out = "ok" /\ last.offset = 0
    /\ snapshotHeader(last.sid) # {}
    /\ getYapperCountForSnapshot(last.sid) = 0
    /\ last.rows[1].yappers = <<>>

\* C24: getStats never fails.  On a store without tables, or with tables
\* that hold no row, it answers 0 snapshots, 0 entries, no latest collection
\* date and 0 sync-log rows; on a store with tables, when its queries
\* return, its counts are the numbers of header rows, entry rows and
\* sync-log rows and its date is the collection date of the newest header.
C24_StatsZeroedOrCounted ==
    last.op = "stats" =>
        /\ last.out = "ok"
        /\ (~store.init \/ (store.h = {} /\ store.e = {} /\ store.l = {}))
               => last.stats = ZeroStats
        /\ (store.init /\ last.errs = {})
               => /\ last.stats.totalSnapshots = Cardinality(store.h)
                  /\ last.stats.totalYappers = Cardinality(store.e)
                  /\ last.stats.syncLogs = Cardinality(store.l)
                  /\ (store.h = {}) <=> (last.stats.latestSnapshot = <<>>)
                  /\ \A h \in store.h :
                         (\A g \in store.h \ {h} : Newer(h, g))
                            => last.stats.latestSnapshot = <<h.date>>

\* C24 witness: stats have been asked for on a store without tables.
C24_Witness ==
    /\ last.op = "stats" /\ ~store.init /\ last.stats = ZeroStats

\* C25: initTables is idempotent.  Whenever it runs, on a store without
\* tables, with empty tables or with saved rows, it succeeds, the tables
\* exist afterwards and every header, entry and sync-log row is as before.
C25_InitTablesIdempotent ==
    [][(last'.op = "initTables" /\ last' # last)
          => /\ last'.out = "ok"
             /\ store'.init
             /\ store'.h = store.h /\ store'.e = store.e
             /\ store'.l = store.l]_vars

\* C25 witness: initTables has run twice in a row on a store that holds
\* snapshots and a sync-log row.
C25_Witness ==
    /\ last.op = "initTables" /\ last.runs = 2
    /\ store.h # {} /\ store.e # {} /\ store.l # {}

\* C26: at every instant, getScheduleInfo reports as next weekly collection
\* the instant at which the rule of the weekly job fires next after now
\* (the earliest Wednesday 10:00 after now) and as next cleanup the instant
\* at which the rule of the daily job fires next after now (the earliest
\* 02:00 after now, today's when now is before 02:00).
C26_NextFireTimes ==
    last.op = "scheduleInfo" =>
        /\ last.info.nextWeeklyCollection =
               format(NextFire(CronWeekly, Minute(last.at)))
        /\ last.info.nextCleanup =
               format(NextFire(CronDaily, Minute(last.at)))

\* C27: getScheduleInfo reports the jobs that are active: the number it
\* reports is the number of registered jobs that startAll has started and
\* stopAll has not stopped since.
C27_ReportsActiveJobs ==
    [][(last'.op = "scheduleInfo" /\ last' # last)
          => last'.info.activeJobs =
                 Cardinality({k \in DOMAIN jobs : jobs[k].started})]_vars

\* C28: on the routes that take the window as a query parameter (latest,
\* history), the store is queried only for a request with a supported
\* window, a positive limit and an offset that is not negative; every other
\* request is rejected first.
C28_InvalidRejectedFirst ==
    (last.op \in {"latest", "history"} /\ last.out # "rejected")
        => /\ last.win \in ValidWindows
           /\ last.limit > 0
           /\ last.offset >= 0

\* C29: a retention sweep does not wait for a collection run.  Once a sweep
\* has run its DELETE, the entries it has deleted are gone from the
\* committed store, whatever collection runs are in flight.
C29_SweepIndependent ==
    \A p \in Procs :
        (proc[p].op = "cleanup" /\ proc[p].pc = "hung")
            => \A e \in store.e : e.sid \notin proc[p].ids

\* C30: the liveness flag stored with the snapshot of a successful run is
\* true exactly when the run has fetched its payload itself, and false when
\* the payload came from the cache.
C30_LiveFlagTellsFetch ==
    [][\A p \in Procs :
          (/\ proc[p].op = "collect" /\ proc[p].pc = "commit"
           /\ proc'[p].pc = "idle" /\ last'.out = "ok")
              => \A h \in store'.h :
                     h.id = proc[p].sid => h.live = (proc[p].net > 0)]_vars

\* C35: every acquire call that misses the cache returns a payload or fails
\* in the end, given that the timer of a pending fetch fires.
C35_AcquireEnds ==
    \A p \in Procs : (proc[p].op = "acquire") ~> (proc[p].op # "acquire")

\* C31: the outcome of a fetch is assigned once.  A payload is written into
\* the cache only in the step in which a call that is still waiting for its
\* fetch returns that payload; a call that fails or times out writes
\* nothing, and a call that has returned or failed writes nothing later.
C31_NoWriteAfterOutcome ==
    [][\A w \in Windows :
          (cache'[w] # cache[w] /\ cache'[w] # NoEntry)
             => \E p \in Procs :
                    /\ proc[p].op = "acquire" /\ proc[p].win = w
                    /\ proc[p].pc \in {"fetching", "body"}
                    /\ proc'[p] = Idle
                    /\ last'.op = "acquire" /\ last'.out = "ok"
                    /\ last'.data = cache'[w].data
                    /\ cache'[w].timestamp = now]_vars

\* C31 witness: a fetch has failed or timed out at a time when the cache
\* holds the payload another call for the same window has just stored.
C31_Witness ==
    /\ last.op = "acquire" /\ last.out = "fail"
    /\ cache[last.win] # NoEntry /\ cache[last.win].timestamp = now
    /\ \A p \in Procs : proc[p].op # "acquire"

\* C36: acquire serves a cache entry only while it is younger than the TTL.
\* An acquire answered from the cache returns the payload of an entry with
\* (now - fetch time) < TTL; an acquire that finds an entry aged the TTL or
\* more goes to the network.
C36_ServedOnlyWhileFresh ==
    [][/\ (last' # last /\ last'.op = "acquire" /\ last'.net = 0)
           => /\ cache[last'.win] # NoEntry
              /\ (now - cache[last'.win].timestamp) < CacheTTL
              /\ last'.data = cache[last'.win].data
       /\ \A p \in Procs :
              (/\ proc[p].pc = "idle" /\ proc'[p].op = "acquire"
               /\ cache[proc'[p].win] # NoEntry)
                  => (now - cache[proc'[p].win].timestamp) >= CacheTTL]_vars

\* C36 witness: the only call in flight has gone to the network for a window
\* whose cache entry is aged exactly the TTL.
C36_Witness ==
    \E p \in Procs :
        /\ proc[p].op = "acquire" /\ proc[p].pc = "fetching"
        /\ \A q \in Procs \ {p} : proc[q].pc = "idle"
        /\ cache[proc[p].win] # NoEntry
        /\ (now - cache[proc[p].win].timestamp) = CacheTTL
        /\ last.op = "acquire" /\ last.out = "ok" /\ last.win = proc[p].win

\* C37: acquire calls for one window that overlap on a cold cache make at
\* most one upstream request: while the cache has no entry for a window, at
\* most one call for that window is out on the network.
C37_OneRequestOnColdCache ==
    \A w \in Windows :
        cache[w] = NoEntry
            => Cardinality({p \in Procs :
                               /\ proc[p].op = "acquire" /\ proc[p].win = w
                               /\ proc[p].pc \in {"fetching", "body"}}) <= 1

\* C38: an acquire that was in flight when invalidate() ran does not put
\* its result into the cache: when such a call ends, the cache entry of its
\* window is as it was.
C38_NoRepopulationAfterInvalidate ==
    [][\A p \in Procs :
          (/\ proc[p].op = "acquire" /\ proc[p].stale
           /\ proc[p].pc \in {"fetching", "body"} /\ proc'[p].pc = "idle")
              => cache'[proc[p].win] = cache[proc[p].win]]_vars

\* C32: a test run never saves.  No step of a test run, from the call of
\* testRun to its answer and whether it answers success or failure, changes
\* the headers, entries or sync-log rows of the durable store, nor opens a
\* transaction or draws a snapshot id.
C32_TestRunLeavesStore ==
    [][(\E p \in Procs : proc[p].op = "test" \/ proc'[p].op = "test")
          => /\ store' = store
             /\ view' = view
             /\ inTxn' = inTxn
             /\ nextId' = nextId]_vars

\* a test run has answered success over a store that holds a written snapshot
C32_Witness ==
    /\ last.op = "test"
    /\ last.out = "ok"
    /\ last.net = 1
    /\ \E h \in store.h : h.id >= 1

\* C33: the entry count returned by a successful save is the number of entry
\* rows visible for the returned snapshot id, which is the number of entries
\* passed to the save.  The count returned is processedYappers, the `idx` of
\* the save when its COMMIT succeeds.
C33_ReturnedCountIsVisible ==
    [][\A p \in Procs :
          CollectSucceeds(p) =>
              /\ proc[p].idx = getYapperCountForSnapshot(proc[p].sid)'
              /\ proc[p].idx = Len(Yappers(proc[p]))]_vars

\* C34: a save called with no entries terminates.  A collection run whose
\* payload has an empty ranked list and which has called saveSnapshot gets
\* its answer: the save commits and returns, and the handler is free again.
C34_EmptySaveTerminates ==
    \A p \in Procs :
        (/\ proc[p].op = "collect"
         /\ proc[p].pc = "begin"
         /\ Len(Yappers(proc[p])) = 0) ~> (proc[p].pc = "idle")

\* the save of slot p is between its BEGIN and the callback of its COMMIT
\* with at least its header insert executed
Saving(p) ==
    proc[p].op = "collect" /\ proc[p].pc \in {"entries", "commit"}

\* the header and all the entries of the save in slot p are in the rows st
AllRowsIn(p, st) ==
    /\ \E h \in st.h : h.id = proc[p].sid
    /\ Cardinality({e \in st.e : e.sid = proc[p].sid}) = Len(Yappers(proc[p]))

\* no header and no entry of the save in slot p is in the rows st
NoRowIn(p, st) ==
    /\ \A h \in st.h : h.id # proc[p].sid
    /\ \A e \in st.e : e.sid # proc[p].sid

\* C39: overlapping saves stay atomic.  When the COMMIT of one save is
\* executed while another save is under way on the same connection, the
\* committing call reports success exactly when its own header and all its
\* own entries are committed by it, and of the other save's rows the commit
\* makes visible either none or all.
C39_OverlappingSavesAtomic ==
    [][\A p, q \in Procs :
          (/\ p # q
           /\ proc[p].op = "collect" /\ proc[p].pc = "commit"
           /\ proc'[p].pc = "idle"
           /\ Saving(q))
              => /\ (last'.out = "ok") = AllRowsIn(p, store')
                 /\ NoRowIn(q, store') \/ AllRowsIn(q, store')]_vars

\* the step of a GET /api/latest?window=7d
LatestStep ==
    /\ last'.op = "latest"
    /\ UNCHANGED <<now, cache, proc, store, view>>
    /\ apiCache' = apiCache \/ apiCache'[LatestUrl].full

\* C40: once a collection run has succeeded, whichever trigger fired it, a
\* GET /api/latest for the window answers from the store as it is now: with
\* the snapshot a read of the store returns, never with a response that was
\* cached before the write.
C40_LatestNotStaleAfterWrite ==
    [][(LatestStep /\ \E h \in store.h : h.id >= 1)
          => last'.rows = getLatestSnapshot("7d")]_vars

====
